---- MODULE Spec2Model ----
(***************************************************************************)
(* Model of the static-site generator of nodejsByExample                   *)
(* (tools/generate.js): the comment/code segmenter (extractCode), the      *)
(* example loader (renderSingleExamplePage) and the site builder           *)
(* (buildSite).                                                            *)
(*                                                                         *)
(* Text is modelled as a sequence of one-character strings, so that the    *)
(* JavaScript string operations the generator uses (split, startsWith,     *)
(* replace, endsWith, parseInt) are computed character by character.       *)
(***************************************************************************)
EXTENDS Integers, Sequences, FiniteSets, TLC

VARIABLES
    pc,                 \* position of the running function
    text,               \* contents of the file read by renderSingleExamplePage
    lang,               \* language tag handed to extractCode
    sections,           \* blocks produced by split("\n\n\n")
    contents,           \* result of extractCode
    fs,                 \* the examples directory: dir |-> directory listing
    exampleMeta,        \* argument of renderSingleExamplePage
    catalog,            \* parsed contents.json
    filteredExamples,   \* buildSite: flat list filtered to existing dirs
    filteredCategories, \* buildSite: categories filtered to existing dirs
    index,              \* buildSite: loop index over filteredExamples (0-based)
    sitemap,            \* <loc> entries of sitemap.xml (empty before it is written)
    rendered,           \* calls made to renderSinglePage, in order
    written,            \* names of the files written to siteDir, in order
    siteDir,            \* the output directory: file name |-> contents
    today,              \* the day new Date() gives (generateSitemap)
    runs,               \* outcomes of the earlier runs of buildSite on siteDir
    clients,            \* server.js: the Set of SSE responses
    open,               \* viewers whose /livereload connection is open
    rebuildTimeout,     \* server.js: the timer scheduleRebuild set last (0: null)
    isRebuilding,       \* server.js: the flag of the timer callback
    timers,             \* the timers of the event loop that have not fired
    busy,               \* the event loop is inside a callback that has not returned
    queued,             \* watcher events the event loop has not delivered yet
    seen,               \* file changes that happened so far
    quiet,              \* ticks since scheduleRebuild last ran
    rebuilds,           \* the rebuilds started, in order
    reloads             \* the runs of notifyClients, in order

segVars == <<text, lang, sections, contents>>
buildVars == <<catalog, filteredExamples, filteredCategories, index, sitemap>>
siteVars == <<siteDir, today, runs>>
devVars == <<clients, open, rebuildTimeout, isRebuilding, timers, busy, queued, seen,
             quiet, rebuilds, reloads>>
genVars == <<pc, fs, exampleMeta, rendered, written, segVars, buildVars, siteVars>>

vars == <<genVars, devVars>>

(***************************************************************************)
(* Bounds                                                                  *)
(***************************************************************************)
\* longest generated source text, in characters
MaxLen == 7
\* most entries in the listing of one example directory
MaxSubDirs == 3
\* most categories in a catalog, and most items in one category
MaxCats == 2
MaxItems == 2
\* most runs of buildSite on one output directory
MaxRuns == 2
\* most file changes the watcher reports, and most viewers of the dev server
MaxEvents == 3
MaxViewers == 2

\* server.js lines 21, 106-107: the dev server after setupWatcher, nothing
\* scheduled and nobody connected
DevInit ==
    /\ clients = {}
    /\ open = {}
    /\ rebuildTimeout = 0
    /\ isRebuilding = FALSE
    /\ timers = {}
    /\ busy = FALSE
    /\ queued = 0
    /\ seen = 0
    /\ quiet = 0
    /\ rebuilds = <<>>
    /\ reloads = <<>>

\* an empty output directory, on day 1
SiteInit ==
    /\ siteDir = <<>>
    /\ today = 1
    /\ runs = <<>>

(***************************************************************************)
(* JavaScript values and string operations                                 *)
(***************************************************************************)
NL == "\n"

\* the value of a missing array element or property
Undefined == [undefined |-> TRUE]

\* the characters generated source texts are made of
Alphabet == {"/", NL, "x"}

\* String.prototype.startsWith
StartsWith(s, p) ==
    /\ Len(s) >= Len(p)
    /\ SubSeq(s, 1, Len(p)) = p

\* String.prototype.endsWith
EndsWith(s, p) ==
    /\ Len(s) >= Len(p)
    /\ SubSeq(s, Len(s) - Len(p) + 1, Len(s)) = p

\* String.prototype.indexOf, 1-based; 0 when p does not occur in s
IndexOf(s, p) ==
    LET hits == {i \in 1..(Len(s) - Len(p) + 1) : SubSeq(s, i, i + Len(p) - 1) = p}
    IN  IF hits = {} THEN 0
        ELSE CHOOSE i \in hits : \A j \in hits : i <= j

\* String.prototype.split with a non-empty string separator
RECURSIVE Split(_, _)
Split(s, sep) ==
    LET i == IndexOf(s, sep)
    IN  IF i = 0 THEN <<s>>
        ELSE <<SubSeq(s, 1, i - 1)>> \o Split(SubSeq(s, i + Len(sep), Len(s)), sep)

\* String.prototype.replace with a string pattern: the first occurrence only
Replace(s, pat, rep) ==
    LET i == IndexOf(s, pat)
    IN  IF i = 0 THEN s
        ELSE SubSeq(s, 1, i - 1) \o rep \o SubSeq(s, i + Len(pat), Len(s))

(***************************************************************************)
(* extractCode (tools/generate.js)                                         *)
(***************************************************************************)
Marker == <<"/", "/">>
Delimiter == <<NL, NL, NL>>
Langs == {"javascript", "shell"}

\* hljs.highlight(script, {language, ignoreIllegals: true}).value: the
\* highlighter is an external library; its result is kept as the marked-up
\* form of `script` in `language`, distinct from the raw text.
Highlight(script, language) == [language |-> language, source |-> script]

\* a slip in line 43: `includes` in place of `startsWith`
IsCommentLineAnywhere(line) == IndexOf(line, Marker) # 0

\* line 43: the test that classifies a line
IsCommentLine(line) == StartsWith(line, Marker)

\* lines 42-48: the loop over the lines of one block
RECURSIVE ScanLines(_, _, _)
ScanLines(lines, comment, script) ==
    IF lines = <<>> THEN [comment |-> comment, script |-> script]
    ELSE LET line == Head(lines)
         IN  IF IsCommentLine(line)
             THEN ScanLines(Tail(lines), comment \o Replace(line, Marker, <<>>) \o <<NL>>, script)
             ELSE ScanLines(Tail(lines), comment, script \o line \o <<NL>>)

\* lines 39-52: one iteration of the loop over the blocks
ExtractSection(section, language) ==
    LET r == ScanLines(Split(section, <<NL>>), <<>>, <<>>)
    IN  [comment |-> r.comment, code |-> Highlight(r.script, language)]

\* a slip in lines 39-40: `comment` and `script` declared outside the loop over
\* the blocks, so that each section also carries the text of the blocks before it
RECURSIVE ExtractCarrying(_, _, _, _)
ExtractCarrying(blocks, language, comment, script) ==
    IF blocks = <<>> THEN <<>>
    ELSE LET r == ScanLines(Split(Head(blocks), <<NL>>), comment, script)
         IN  <<[comment |-> r.comment, code |-> Highlight(r.script, language)]>>
                 \o ExtractCarrying(Tail(blocks), language, r.comment, r.script)

extractCodeCarrying(blocks, language) == ExtractCarrying(blocks, language, <<>>, <<>>)

\* lines 36-56
RECURSIVE extractCode(_, _)
extractCode(blocks, language) ==
    IF blocks = <<>> THEN <<>>
    ELSE <<ExtractSection(Head(blocks), language)>> \o extractCode(Tail(blocks), language)

(***************************************************************************)
(* Segmenting one present file, as renderSingleExamplePage does            *)
(***************************************************************************)
HelloWorld ==
    <<"/", "/", " ", "h", "e", "l", "l", "o", NL,
      "c", "o", "n", "s", "t", " ", "x", " ", "=", " ", "1", ";", NL, NL, NL,
      "/", "/", " ", "w", "o", "r", "l", "d", NL,
      "c", "o", "n", "s", "t", " ", "y", " ", "=", " ", "2", ";">>

Texts == UNION {[1..k -> Alphabet] : k \in 0..MaxLen}

SegInputs == Texts \cup {HelloWorld}

\* a directory entry that is a regular file (fs.Dirent and the text behind it)
FileEntry(name, fileContents) ==
    [name |-> name, isFile |-> TRUE, readable |-> TRUE, content |-> fileContents]

\* a slip in lines 91-92: splitting on one blank line in place of two
SplitContentsOnBlankLine(file) ==
    IF file # Undefined /\ file.content # <<>>
    THEN Split(file.content, <<NL, NL>>)
    ELSE <<>>

\* lines 88-92: `file ? readFileSync(file) : null`, then
\* `contents ? contents.split("\n\n\n") : []`; the empty string is falsy
SplitContents(file) ==
    IF file # Undefined /\ file.content # <<>>
    THEN Split(file.content, Delimiter)
    ELSE <<>>

\* the file name renderSingleExamplePage looks for, per language
JsName == <<"a", ".", "j", "s">>
ShName == <<"a", ".", "s", "h">>
FileNameOf(language) == IF language = "javascript" THEN JsName ELSE ShName

InitSeg ==
    /\ pc = "read"
    /\ text \in SegInputs
    /\ lang \in Langs
    /\ sections = <<>>
    /\ contents = <<>>
    /\ fs = <<>>
    /\ exampleMeta = Undefined
    /\ catalog = Undefined
    /\ filteredExamples = <<>>
    /\ filteredCategories = <<>>
    /\ index = 0
    /\ sitemap = <<>>
    /\ rendered = <<>>
    /\ written = <<>>
    /\ SiteInit
    /\ DevInit

\* lines 88-92: the file was found and read; its text is split into blocks
SplitFile ==
    /\ pc = "read"
    /\ sections' = SplitContents(FileEntry(FileNameOf(lang), text))
    /\ pc' = "split"
    /\ UNCHANGED <<text, lang, contents, fs, exampleMeta, rendered, written>>
    /\ UNCHANGED buildVars
    /\ UNCHANGED devVars
    /\ UNCHANGED siteVars

\* lines 95-96: extractCode over the blocks
ExtractCode ==
    /\ pc = "split"
    /\ contents' = extractCode(sections, lang)
    /\ pc' = "extracted"
    /\ UNCHANGED <<text, lang, sections, fs, exampleMeta, rendered, written>>
    /\ UNCHANGED buildVars
    /\ UNCHANGED devVars
    /\ UNCHANGED siteVars

\* a slip in line 37: parsedSections declared outside the function, so that a
\* call returns the sections of the calls before it as well
ExtractCodeAgainAccumulating ==
    /\ pc = "extracted"
    /\ contents' = contents \o extractCode(sections, lang)
    /\ pc' = "again"
    /\ UNCHANGED <<text, lang, sections, fs, exampleMeta, rendered, written>>
    /\ UNCHANGED buildVars
    /\ UNCHANGED devVars
    /\ UNCHANGED siteVars

\* lines 36-56: extractCode is called once more, with the same blocks and the
\* same language tag
ExtractCodeAgain ==
    /\ pc = "extracted"
    /\ contents' = extractCode(sections, lang)
    /\ pc' = "again"
    /\ UNCHANGED <<text, lang, sections, fs, exampleMeta, rendered, written>>
    /\ UNCHANGED buildVars
    /\ UNCHANGED devVars
    /\ UNCHANGED siteVars

NextSeg == SplitFile \/ ExtractCode \/ ExtractCodeAgain

SpecSeg == InitSeg /\ [][NextSeg]_vars

(***************************************************************************)
(* Properties of the segmenter                                             *)
(***************************************************************************)
EmptySection(language) == [comment |-> <<>>, code |-> Highlight(<<>>, language)]

\* C4: segmenting the text of a present file always yields at least one
\* section, and the empty text yields exactly one section with empty comment
\* and empty code.
C4_SegmentNonEmpty ==
    pc = "extracted" =>
        /\ Len(contents) >= 1
        /\ text = <<>> => contents = <<EmptySection(lang)>>

HelloComment == <<"h", "e", "l", "l", "o", NL>>
WorldComment == <<"w", "o", "r", "l", "d", NL>>
HelloCode == <<"c", "o", "n", "s", "t", " ", "x", " ", "=", " ", "1", ";", NL>>
WorldCode == <<"c", "o", "n", "s", "t", " ", "y", " ", "=", " ", "2", ";", NL>>

\* C5 as stated: the example text segments into two sections whose comments
\* are exactly "hello\n" and "world\n".
C5_HelloWorldAsStated ==
    (pc = "extracted" /\ text = HelloWorld) =>
        contents = <<[comment |-> HelloComment, code |-> Highlight(HelloCode, lang)],
                     [comment |-> WorldComment, code |-> Highlight(WorldCode, lang)]>>

\* C5 amended: the example text segments into exactly two sections, in order,
\* whose comments are " hello\n" and " world\n" (only the marker is removed,
\* the space after it is kept) and whose codes are highlight("const x = 1;\n")
\* and highlight("const y = 2;\n").
C5_HelloWorld ==
    (pc = "extracted" /\ text = HelloWorld) =>
        contents = <<[comment |-> <<" ">> \o HelloComment, code |-> Highlight(HelloCode, lang)],
                     [comment |-> <<" ">> \o WorldComment, code |-> Highlight(WorldCode, lang)]>>

C5_Witness == pc = "extracted" /\ text = HelloWorld /\ Len(contents) = 2

\* a line that begins with the two characters of the marker
BeginsWithMarker(l) == Len(l) >= 2 /\ l[1] = "/" /\ l[2] = "/"

\* C6: no line of any produced comment begins with the marker "//".
C6_MarkerStripped ==
    pc = "extracted" =>
        \A i \in 1..Len(contents) :
            LET commentLines == Split(contents[i].comment, <<NL>>)
            IN  \A k \in 1..Len(commentLines) : ~BeginsWithMarker(commentLines[k])

\* the lines of `ls`, each followed by a newline, concatenated
RECURSIVE JoinWithNewlines(_)
JoinWithNewlines(ls) ==
    IF ls = <<>> THEN <<>>
    ELSE Head(ls) \o <<NL>> \o JoinWithNewlines(Tail(ls))

WithoutMarker(l) == SubSeq(l, 3, Len(l))
NotMarked(l) == ~BeginsWithMarker(l)
CountNewlines(s) == Cardinality({k \in 1..Len(s) : s[k] = NL})

\* C7: in every block the comment is the marker-less comment lines in source
\* order, each followed by a newline; the raw code is the other lines in
\* source order, each followed by a newline; every line is in exactly one of
\* the two.
C7_Buckets ==
    pc = "extracted" =>
        \A i \in 1..Len(sections) :
            LET lines == Split(sections[i], <<NL>>)
                marked == SelectSeq(lines, BeginsWithMarker)
                others == SelectSeq(lines, NotMarked)
            IN  /\ i <= Len(contents)
                /\ contents[i].comment =
                       JoinWithNewlines([k \in 1..Len(marked) |-> WithoutMarker(marked[k])])
                /\ contents[i].code = Highlight(JoinWithNewlines(others), lang)
                /\ CountNewlines(contents[i].comment)
                       + CountNewlines(contents[i].code.source) = Len(lines)

\* a block with comment and code lines interleaved has been segmented
C7_Witness ==
    /\ pc = "extracted"
    /\ \E i \in 1..Len(sections) :
           LET lines == Split(sections[i], <<NL>>)
           IN  /\ Len(lines) >= 3
               /\ ~BeginsWithMarker(lines[1])
               /\ BeginsWithMarker(lines[2])
               /\ ~BeginsWithMarker(lines[3])
               /\ lines[1] # <<>>
               /\ lines[3] # <<>>

\* C8: extractCode returns one section per block, and the i-th section is the
\* one extractCode computes from the i-th block alone.
C8_OneSectionPerBlock ==
    pc = "extracted" =>
        /\ Len(contents) = Len(sections)
        /\ \A i \in 1..Len(sections) :
               contents[i] = extractCode(<<sections[i]>>, lang)[1]

\* two different blocks, the first with a comment, have been segmented
C8_Witness ==
    /\ pc = "extracted"
    /\ Len(sections) = 2
    /\ Len(contents) = 2
    /\ BeginsWithMarker(sections[1])
    /\ sections[2] # <<>>
    /\ sections[1] # sections[2]

\* the lines of a block as an author sees them: a final newline ends the last
\* line, it does not start another one
AuthorLines(block) ==
    IF block # <<>> /\ block[Len(block)] = NL
    THEN Split(SubSeq(block, 1, Len(block) - 1), <<NL>>)
    ELSE Split(block, <<NL>>)

OnlyCommentLines(block) ==
    /\ block # <<>>
    /\ \A k \in 1..Len(AuthorLines(block)) : BeginsWithMarker(AuthorLines(block)[k])

\* C9: a block all of whose lines are comment lines, with or without a final
\* newline, yields a section with empty code.
C9_CommentOnlyEmptyCode ==
    pc = "extracted" =>
        \A i \in 1..Len(sections) :
            OnlyCommentLines(sections[i]) =>
                /\ i <= Len(contents)
                /\ contents[i].code = Highlight(<<>>, lang)

Root == [slug |-> <<"/">>]

\* array[i] for a 0-based index; Undefined outside the array
At(arr, i) == IF i \in 0..(Len(arr) - 1) THEN arr[i + 1] ELSE Undefined

\* the operator `a ?? b`
Nullish(a, b) == IF a = Undefined THEN b ELSE a

Digits == <<"0", "1", "2", "3", "4", "5", "6", "7", "8", "9">>
IsDigit(c) == \E v \in 1..Len(Digits) : Digits[v] = c
DigitValue(c) == (CHOOSE v \in 1..Len(Digits) : Digits[v] = c) - 1

\* the leading decimal digits of s
RECURSIVE LeadingDigits(_)
LeadingDigits(s) ==
    IF s = <<>> \/ ~IsDigit(Head(s)) THEN <<>>
    ELSE <<Head(s)>> \o LeadingDigits(Tail(s))

RECURSIVE DecimalValue(_)
DecimalValue(ds) ==
    IF ds = <<>> THEN 0
    ELSE 10 * DecimalValue(SubSeq(ds, 1, Len(ds) - 1)) + DigitValue(ds[Len(ds)])

\* parseInt(s) is NaN when s does not start with a digit (names with a sign
\* or leading white space are not generated)
IsNaN(s) == LeadingDigits(s) = <<>>

\* parseInt(s) for a string that starts with a digit
ParseInt(s) == DecimalValue(LeadingDigits(s))

\* compares two names character by character, as the default sort order does
RECURSIVE LexCompare(_, _)
LexCompare(a, b) ==
    IF a = <<>> /\ b = <<>> THEN 0
    ELSE IF a = <<>> THEN -1
    ELSE IF b = <<>> THEN 1
    ELSE IF Head(a) = Head(b) THEN LexCompare(Tail(a), Tail(b))
    ELSE IF IsDigit(Head(a)) /\ IsDigit(Head(b))
         THEN DigitValue(Head(a)) - DigitValue(Head(b))
    ELSE 0

\* a slip in line 68: the names compared as strings, not as numbers
CompareSubDirsAsStrings(a, b) == LexCompare(a.name, b.name)

\* line 68: the comparator `parseInt(a.name) - parseInt(b.name)`; a NaN
\* difference is treated by sort as 0
CompareSubDirs(a, b) ==
    IF IsNaN(a.name) \/ IsNaN(b.name) THEN 0
    ELSE ParseInt(a.name) - ParseInt(b.name)

\* Array.prototype.sort is stable: x goes after every element not greater than it
InsertSorted(sorted, x) ==
    LET p == Cardinality({i \in 1..Len(sorted) : CompareSubDirs(sorted[i], x) <= 0})
    IN  SubSeq(sorted, 1, p) \o <<x>> \o SubSeq(sorted, p + 1, Len(sorted))

RECURSIVE SortSubDirs(_)
SortSubDirs(entries) ==
    IF entries = <<>> THEN <<>>
    ELSE InsertSorted(SortSubDirs(SubSeq(entries, 1, Len(entries) - 1)), entries[Len(entries)])

IsDirectoryEntry(e) == e.isDirectory
IsFileEntry(e) == e.isFile

\* Array.prototype.find for `file => file.name.endsWith(suffix)`
FindBySuffix(files, suffix) ==
    LET hits == {i \in 1..Len(files) : EndsWith(files[i].name, suffix)}
    IN  IF hits = {} THEN Undefined
        ELSE files[CHOOSE i \in hits : \A j \in hits : i <= j]

DotJs == <<".", "j", "s">>
DotSh == <<".", "s", "h">>

\* a slip in lines 75-86: no `continue`, a SubExample pushed for every subdirectory
SkipsSubDirNever(subDir) == FALSE

\* lines 73-86: TRUE when the loop body reaches `continue`
SkipsSubDir(subDir) ==
    LET files == SelectSeq(subDir.files, IsFileEntry)
    IN  \/ Len(files) = 0
        \/ /\ FindBySuffix(files, DotJs) = Undefined
           /\ FindBySuffix(files, DotSh) = Undefined

\* lines 88-97: the SubExample pushed for a subdirectory that is not skipped
SubExample(subDir) ==
    LET files == SelectSeq(subDir.files, IsFileEntry)
    IN  [code   |-> extractCode(SplitContents(FindBySuffix(files, DotJs)), "javascript"),
         script |-> extractCode(SplitContents(FindBySuffix(files, DotSh)), "shell")]

\* lines 70-98: the loop over the sorted subdirectories
RECURSIVE PageContents(_)
PageContents(subDirs) ==
    IF subDirs = <<>> THEN <<>>
    ELSE IF SkipsSubDir(Head(subDirs)) THEN PageContents(Tail(subDirs))
    ELSE <<SubExample(Head(subDirs))>> \o PageContents(Tail(subDirs))

\* a slip in lines 88-89: the reads wrapped in a try/catch that carries on
ReadThrowsNever(subDir) == FALSE

\* lines 83-89: TRUE when readFileSync throws on the code or the script file
\* found in the subdirectory
ReadThrows(subDir) ==
    LET files == SelectSeq(subDir.files, IsFileEntry)
        codeFile == FindBySuffix(files, DotJs)
        scriptFile == FindBySuffix(files, DotSh)
    IN  \/ codeFile # Undefined /\ ~codeFile.readable
        \/ scriptFile # Undefined /\ ~scriptFile.readable

\* a slip in lines 61-65: no test of existsSync, so that readdirSync throws
\* on a directory that does not exist
LoadThrowsOnMissingDir(meta, tree) ==
    \/ meta.dir \notin DOMAIN tree
    \/ LET subDirs == SelectSeq(tree[meta.dir], IsDirectoryEntry)
       IN  \E i \in 1..Len(subDirs) : ~SkipsSubDir(subDirs[i]) /\ ReadThrows(subDirs[i])

\* lines 58-98: TRUE when renderSingleExamplePage throws: the directory
\* exists and a subdirectory that is not skipped holds a file that cannot be read
LoadThrows(meta, tree) ==
    /\ meta.dir \in DOMAIN tree
    /\ LET subDirs == SelectSeq(tree[meta.dir], IsDirectoryEntry)
       IN  \E i \in 1..Len(subDirs) : ~SkipsSubDir(subDirs[i]) /\ ReadThrows(subDirs[i])

IndexTemplate == <<"i", "n", "d", "e", "x">>
ContentTemplate == <<"c", "o", "n", "t", "e", "n", "t">>
DotPug == <<".", "p", "u", "g">>
DotHtml == <<".", "h", "t", "m", "l">>

\* the `null` passed as filenameOverride: renderSinglePage only tests its
\* truthiness, and `null` and the empty string are both falsy
NoOverride == <<>>

\* a call of renderSinglePage(filePath, contents, filenameOverride)
RenderCall(template, data, filenameOverride) ==
    [template |-> template, data |-> data, filenameOverride |-> filenameOverride]

\* lines 17-32: the name of the file renderSinglePage writes for a call
HtmlFileOf(call) ==
    LET templateFile == IF EndsWith(call.template, DotPug) THEN call.template
                        ELSE call.template \o DotPug
        filePath == IF call.filenameOverride # <<>>
                    THEN call.filenameOverride \o DotPug
                    ELSE templateFile
    IN  Replace(filePath, DotPug, DotHtml)

\* a slip in line 33: the file opened with flag "wx" semantics, so that a
\* file that exists is left as it is
WriteFileIfAbsent(dir, name, data) ==
    [f \in DOMAIN dir \cup {name} |-> IF f \in DOMAIN dir THEN dir[f] ELSE data]

\* lines 33, 138: fs.writeFileSync creates the file or replaces its contents
WriteFile(dir, name, data) ==
    [f \in DOMAIN dir \cup {name} |-> IF f = name THEN data ELSE dir[f]]

\* lines 21-27: the html pug renders for a call, a function of the template
\* and the payload
HtmlOf(call) == [template |-> call.template, data |-> call.data]

\* lines 28-33 for a sequence of calls of renderSinglePage
RECURSIVE WriteCalls(_, _)
WriteCalls(dir, calls) ==
    IF calls = <<>> THEN dir
    ELSE WriteCalls(WriteFile(dir, HtmlFileOf(Head(calls)), HtmlOf(Head(calls))),
                    Tail(calls))

\* line 33: the files written by a sequence of calls of renderSinglePage
RECURSIVE WritesOf(_)
WritesOf(calls) ==
    IF calls = <<>> THEN <<>>
    ELSE <<HtmlFileOf(Head(calls))>> \o WritesOf(Tail(calls))

\* lines 58-109: the calls of renderSinglePage that renderSingleExamplePage
\* makes for `meta` on the directory tree `tree`: none when the example's
\* directory does not exist, otherwise one
RenderSingleExamplePage(meta, tree) ==
    IF meta.dir \notin DOMAIN tree THEN <<>>
    ELSE LET subDirs == SortSubDirs(SelectSeq(tree[meta.dir], IsDirectoryEntry))
         IN  <<RenderCall(ContentTemplate,
                          [contents    |-> PageContents(subDirs),
                           title       |-> meta.title,
                           slug        |-> meta.slug,
                           description |-> meta.description,
                           next        |-> meta.next,
                           previous    |-> meta.previous],
                          meta.slug)>>

(***************************************************************************)
(* Loading one example from a generated directory tree                     *)
(***************************************************************************)
\* names of the entries of an example directory: decimal integers, two of
\* them with the same value
DirNames == {<<"1">>, <<"2">>, <<"1", "0">>, <<"0", "2">>}

\* the text of the code and script file of subdirectory `name`
CodeText(name) == Marker \o name \o <<NL, "x">>
ScriptText(name) == <<"$">> \o name

Dirent(name, isDirectory, files) ==
    [name |-> name, isDirectory |-> isDirectory, isFile |-> ~isDirectory, files |-> files]

TxtName == <<"a", ".", "t", "x", "t">>

\* the entries an example directory can hold under `name`
EntryKinds == {"empty", "js", "sh", "js+sh", "emptyjs", "txt", "nested", "file",
               "badjs", "js+badsh"}

\* a regular file that readFileSync cannot read
UnreadableFile(name) == [name |-> name, isFile |-> TRUE, readable |-> FALSE, content |-> <<>>]

EntryOf(name, kind) ==
    CASE kind = "empty"   -> Dirent(name, TRUE, <<>>)
      [] kind = "js"      -> Dirent(name, TRUE, <<FileEntry(JsName, CodeText(name))>>)
      [] kind = "sh"      -> Dirent(name, TRUE, <<FileEntry(ShName, ScriptText(name))>>)
      [] kind = "js+sh"   -> Dirent(name, TRUE, <<FileEntry(ShName, ScriptText(name)),
                                                  FileEntry(JsName, CodeText(name))>>)
      [] kind = "emptyjs" -> Dirent(name, TRUE, <<FileEntry(JsName, <<>>)>>)
      [] kind = "txt"     -> Dirent(name, TRUE, <<FileEntry(TxtName, CodeText(name))>>)
      [] kind = "nested"  -> Dirent(name, TRUE, <<[name |-> JsName, isFile |-> FALSE,
                                                   readable |-> TRUE, content |-> <<>>]>>)
      [] kind = "file"    -> Dirent(name, FALSE, <<>>)
      [] kind = "badjs"   -> Dirent(name, TRUE, <<UnreadableFile(JsName)>>)
      [] kind = "js+badsh" -> Dirent(name, TRUE, <<FileEntry(JsName, CodeText(name)),
                                                   UnreadableFile(ShName)>>)

\* listings of at most MaxSubDirs entries with different names, in any order
NameLists ==
    {ns \in UNION {[1..k -> DirNames] : k \in 0..MaxSubDirs} :
        \A i, j \in 1..Len(ns) : i # j => ns[i] # ns[j]}

\* the slug of an entry is any text the catalog gives it: "c" has one that
\* holds the template suffix
SlugOf(dir) ==
    IF dir = "c" THEN <<dir, ".", "p", "u", "g", "s">> ELSE <<dir, "-", "p", "g">>

Meta(dir) ==
    [dir |-> dir, slug |-> SlugOf(dir), title |-> "Title of " \o dir,
     description |-> "About " \o dir]

WithNav(entry, next, previous) ==
    [dir |-> entry.dir, slug |-> entry.slug, title |-> entry.title,
     description |-> entry.description, next |-> next, previous |-> previous]

InitLoad ==
    /\ pc = "call"
    /\ exampleMeta = WithNav(Meta("a"), Root, Root)
    /\ \/ fs = <<>>
       \/ \E ns \in NameLists : \E kinds \in [1..Len(ns) -> EntryKinds] :
              fs = [d \in {"a"} |-> [i \in 1..Len(ns) |-> EntryOf(ns[i], kinds[i])]]
    /\ text = <<>>
    /\ lang = "javascript"
    /\ sections = <<>>
    /\ contents = <<>>
    /\ catalog = Undefined
    /\ filteredExamples = <<>>
    /\ filteredCategories = <<>>
    /\ index = 0
    /\ sitemap = <<>>
    /\ rendered = <<>>
    /\ written = <<>>
    /\ SiteInit
    /\ DevInit

\* lines 58-109: one call of renderSingleExamplePage that returns
LoadExample ==
    /\ pc = "call"
    /\ ~LoadThrows(exampleMeta, fs)
    /\ rendered' = rendered \o RenderSingleExamplePage(exampleMeta, fs)
    /\ written' = written \o WritesOf(RenderSingleExamplePage(exampleMeta, fs))
    /\ siteDir' = WriteCalls(siteDir, RenderSingleExamplePage(exampleMeta, fs))
    /\ pc' = "returned"
    /\ UNCHANGED <<fs, exampleMeta>>
    /\ UNCHANGED segVars
    /\ UNCHANGED buildVars
    /\ UNCHANGED devVars
    /\ UNCHANGED <<today, runs>>

\* lines 58-89: one call of renderSingleExamplePage that throws on a read
LoadExampleThrows ==
    /\ pc = "call"
    /\ LoadThrows(exampleMeta, fs)
    /\ pc' = "thrown"
    /\ UNCHANGED <<fs, exampleMeta, rendered, written>>
    /\ UNCHANGED segVars
    /\ UNCHANGED buildVars
    /\ UNCHANGED devVars
    /\ UNCHANGED siteVars

NextLoad == LoadExample \/ LoadExampleThrows

SpecLoad == InitLoad /\ [][NextLoad]_vars

(***************************************************************************)
(* Properties of the example loader                                        *)
(***************************************************************************)
\* positions in the listing of `dir` of the subdirectories that hold a
\* regular .js or .sh file
Contributing(dir) ==
    {i \in 1..Len(fs[dir]) :
        /\ fs[dir][i].isDirectory
        /\ \E k \in 1..Len(fs[dir][i].files) :
               /\ fs[dir][i].files[k].isFile
               /\ \/ EndsWith(fs[dir][i].files[k].name, DotJs)
                  \/ EndsWith(fs[dir][i].files[k].name, DotSh)}

\* C10: the page contents are the SubExamples of the contributing
\* subdirectories, one each, in ascending order of the numeric value of the
\* directory name, whatever the order of the listing.
C10_NumericOrder ==
    (pc = "returned" /\ exampleMeta.dir \in DOMAIN fs) =>
        /\ Len(rendered) = 1
        /\ LET listing == fs[exampleMeta.dir]
               page == rendered[1].data.contents
           IN  /\ Len(page) = Cardinality(Contributing(exampleMeta.dir))
               /\ \E f \in [1..Len(page) -> Contributing(exampleMeta.dir)] :
                      /\ \A k, m \in 1..Len(page) : k # m => f[k] # f[m]
                      /\ \A k \in 1..Len(page) : page[k] = SubExample(listing[f[k]])
                      /\ \A k, m \in 1..Len(page) :
                             k < m => DecimalValue(listing[f[k]].name)
                                          <= DecimalValue(listing[f[m]].name)

\* the listing returned "2", "10", "1", each with content, and the page was rendered
C10_Witness ==
    /\ pc = "returned"
    /\ exampleMeta.dir \in DOMAIN fs
    /\ Len(fs[exampleMeta.dir]) = 3
    /\ fs[exampleMeta.dir][1].name = <<"2">>
    /\ fs[exampleMeta.dir][2].name = <<"1", "0">>
    /\ fs[exampleMeta.dir][3].name = <<"1">>
    /\ Contributing(exampleMeta.dir) = {1, 2, 3}
    /\ Len(rendered) = 1
    /\ Len(rendered[1].data.contents) = 3

\* a subdirectory holds a regular file whose name ends with `suffix`
HoldsFile(entry, suffix) ==
    \E k \in 1..Len(entry.files) :
        entry.files[k].isFile /\ EndsWith(entry.files[k].name, suffix)

HoldsCodeOrScript(entry) == HoldsFile(entry, DotJs) \/ HoldsFile(entry, DotSh)

\* the name of the page written for the example
PageFileOf(meta) == meta.slug \o DotHtml

\* C11: subdirectories without a code and without a script file contribute
\* nothing and do not abort the example: the page is rendered, and its
\* contents are those of the example with these subdirectories taken away.
C11_FilelessSubDirSkipped ==
    /\ (pc = "returned" /\ exampleMeta.dir \in DOMAIN fs) =>
           /\ Len(rendered) = 1
           /\ written = <<PageFileOf(exampleMeta)>>
           /\ rendered[1].data.contents =
                  PageContents(SortSubDirs(SelectSeq(SelectSeq(fs[exampleMeta.dir],
                                                               IsDirectoryEntry),
                                                     HoldsCodeOrScript)))
    /\ pc = "thrown" =>
           \E i \in 1..Len(fs[exampleMeta.dir]) :
               /\ fs[exampleMeta.dir][i].isDirectory
               /\ \E k \in 1..Len(fs[exampleMeta.dir][i].files) :
                      ~fs[exampleMeta.dir][i].files[k].readable

\* subdirectory "2" is empty, "1" and "10" hold files, and the page has two SubExamples
C11_Witness ==
    /\ pc = "returned"
    /\ exampleMeta.dir \in DOMAIN fs
    /\ Len(fs[exampleMeta.dir]) = 3
    /\ \E i \in 1..3 :
           /\ fs[exampleMeta.dir][i].name = <<"2">>
           /\ fs[exampleMeta.dir][i].isDirectory
           /\ fs[exampleMeta.dir][i].files = <<>>
    /\ Cardinality(Contributing(exampleMeta.dir)) = 2
    /\ Len(rendered) = 1
    /\ Len(rendered[1].data.contents) = 2

\* the segmentation of a file's text: its blocks, each turned into a section
Segmentation(fileText, language) == extractCode(Split(fileText, Delimiter), language)

\* the text of the first regular file of a subdirectory whose name ends with `suffix`
TextOfFile(entry, suffix) ==
    LET k == CHOOSE k \in 1..Len(entry.files) :
                 /\ entry.files[k].isFile
                 /\ EndsWith(entry.files[k].name, suffix)
                 /\ \A j \in 1..(k - 1) :
                        ~(entry.files[j].isFile /\ EndsWith(entry.files[j].name, suffix))
    IN  entry.files[k].content

\* C12: a subdirectory with exactly one of the two files contributes a
\* SubExample whose array for the missing file is empty and whose array for
\* the present file is that file's segmentation.
C12_OneFileOnly ==
    (pc = "returned" /\ exampleMeta.dir \in DOMAIN fs) =>
        \A i \in 1..Len(fs[exampleMeta.dir]) :
            LET entry == fs[exampleMeta.dir][i]
                page == rendered[1].data.contents
            IN  /\ (entry.isDirectory /\ HoldsFile(entry, DotJs) /\ ~HoldsFile(entry, DotSh)) =>
                       \E k \in 1..Len(page) :
                           page[k] = [code   |-> Segmentation(TextOfFile(entry, DotJs), "javascript"),
                                      script |-> <<>>]
                /\ (entry.isDirectory /\ HoldsFile(entry, DotSh) /\ ~HoldsFile(entry, DotJs)) =>
                       \E k \in 1..Len(page) :
                           page[k] = [code   |-> <<>>,
                                      script |-> Segmentation(TextOfFile(entry, DotSh), "shell")]

\* C12 for files that are not empty (not a claim's formula: it shows that the
\* empty file is the only case in which C12_OneFileOnly fails)
OneFileOnlyNotEmpty ==
    (pc = "returned" /\ exampleMeta.dir \in DOMAIN fs) =>
        \A i \in 1..Len(fs[exampleMeta.dir]) :
            LET entry == fs[exampleMeta.dir][i]
                page == rendered[1].data.contents
            IN  /\ (/\ entry.isDirectory
                    /\ HoldsFile(entry, DotJs)
                    /\ ~HoldsFile(entry, DotSh)
                    /\ TextOfFile(entry, DotJs) # <<>>) =>
                       \E k \in 1..Len(page) :
                           page[k] = [code   |-> Segmentation(TextOfFile(entry, DotJs), "javascript"),
                                      script |-> <<>>]
                /\ (/\ entry.isDirectory
                    /\ HoldsFile(entry, DotSh)
                    /\ ~HoldsFile(entry, DotJs)
                    /\ TextOfFile(entry, DotSh) # <<>>) =>
                       \E k \in 1..Len(page) :
                           page[k] = [code   |-> <<>>,
                                      script |-> Segmentation(TextOfFile(entry, DotSh), "shell")]

(***************************************************************************)
(* buildSite (tools/generate.js)                                           *)
(***************************************************************************)
\* a slip in line 149: the categories flattened last to first
RECURSIVE FlatItemsReversed(_)
FlatItemsReversed(categories) ==
    IF categories = <<>> THEN <<>>
    ELSE FlatItemsReversed(Tail(categories)) \o Head(categories).items

\* Array.prototype.flatMap(cat => cat.items)
RECURSIVE FlatItems(_)
FlatItems(categories) ==
    IF categories = <<>> THEN <<>>
    ELSE Head(categories).items \o FlatItems(Tail(categories))

\* a slip in lines 152-154 and 159-161: no test of existsSync, every item kept
ExistingItemsUnfiltered(items, tree) == items

\* lines 152-154 and 159-161: items whose directory exists under examplesDir
RECURSIVE ExistingItems(_, _)
ExistingItems(items, tree) ==
    IF items = <<>> THEN <<>>
    ELSE IF Head(items).dir \in DOMAIN tree
         THEN <<Head(items)>> \o ExistingItems(Tail(items), tree)
         ELSE ExistingItems(Tail(items), tree)

\* a slip in line 162: the categories left without items not dropped
RECURSIVE FilterCategoriesKeepingEmpty(_, _)
FilterCategoriesKeepingEmpty(categories, tree) ==
    IF categories = <<>> THEN <<>>
    ELSE <<[name  |-> Head(categories).name,
            items |-> ExistingItems(Head(categories).items, tree)]>>
             \o FilterCategoriesKeepingEmpty(Tail(categories), tree)

\* lines 157-162: every category cut down to its existing items, the empty ones dropped
RECURSIVE FilterCategories(_, _)
FilterCategories(categories, tree) ==
    IF categories = <<>> THEN <<>>
    ELSE LET cat == [name  |-> Head(categories).name,
                     items |-> ExistingItems(Head(categories).items, tree)]
         IN  IF Len(cat.items) > 0
             THEN <<cat>> \o FilterCategories(Tail(categories), tree)
             ELSE FilterCategories(Tail(categories), tree)

IndexDescription == "Learn Node.js through hands-on annotated code examples."

\* a slip in lines 169-170: the index page linked back to the root sentinel
\* in place of the last entry
IndexPayloadRootPrevious(examples, categories) ==
    [title       |-> "",
     slug        |-> <<>>,
     description |-> IndexDescription,
     categories  |-> categories,
     next        |-> At(examples, 0),
     previous    |-> Root]

\* lines 164-171: the payload of the index page
IndexPayload(examples, categories) ==
    [title       |-> "",
     slug        |-> <<>>,
     description |-> IndexDescription,
     categories  |-> categories,
     next        |-> At(examples, 0),
     previous    |-> At(examples, Len(examples) - 1)]

\* a slip in lines 177-178: the ends of the list wrapped to each other
ExampleWithNavWrapped(examples, i) ==
    WithNav(At(examples, i),
            At(examples, (i + 1) % Len(examples)),
            At(examples, (i + Len(examples) - 1) % Len(examples)))

\* lines 177-179: the entry at 0-based position i with its navigation attached
ExampleWithNav(examples, i) ==
    WithNav(At(examples, i),
            Nullish(At(examples, i + 1), Root),
            Nullish(At(examples, i - 1), Root))

BaseUrl == <<"https://nodejsbyexample.com">>
SitemapName == <<"s", "i", "t", "e", "m", "a", "p", ".", "x", "m", "l">>

\* lines 119 and 128: the <loc> of the root and of an example
RootLoc == BaseUrl \o <<"/">>
LocOf(slug) == BaseUrl \o <<"/">> \o slug

\* lines 126-134: one <url> entry per example
RECURSIVE SitemapLocs(_)
SitemapLocs(examples) ==
    IF examples = <<>> THEN <<>>
    ELSE <<LocOf(Head(examples).slug)>> \o SitemapLocs(Tail(examples))

\* a slip in lines 116-124: the <url> entry of the root left out
GenerateSitemapLocsWithoutRoot(examples) == SitemapLocs(examples)

\* lines 111-138: the <loc> entries of sitemap.xml, the root first
GenerateSitemapLocs(examples) == <<RootLoc>> \o SitemapLocs(examples)

\* lines 114-136: the text of sitemap.xml: the <loc> entries, every one with
\* <lastmod> the day of the build
SitemapXml(locs, day) == [urls |-> locs, lastmod |-> day]

\* line 146: readFileSync throws on a missing contents.json, JSON.parse on
\* text that is not JSON
CatalogMissing == [missing |-> TRUE]
CatalogUnparseable == [unparseable |-> TRUE]

\* lines 146-154: TRUE when buildSite throws before the index page: the file
\* is missing or not JSON, `contents.categories` is undefined (flatMap of
\* undefined), or a category has no `items` (flatMap keeps the undefined and
\* `example.dir` throws in the filter)
CatalogThrows(c) ==
    IF c = CatalogMissing \/ c = CatalogUnparseable \/ "categories" \notin DOMAIN c
    THEN TRUE
    ELSE \E i \in 1..Len(c.categories) : "items" \notin DOMAIN c.categories[i]

(***************************************************************************)
(* Building a site from a generated catalog and examples directory         *)
(***************************************************************************)
Dirs == {"a", "b", "c"}

\* the tree of an example directory: "2" holds a code and a script file, "1"
\* a code file; the listing returns "2" first
ExampleListing == <<EntryOf(<<"2">>, "js+sh"), EntryOf(<<"1">>, "js")>>

\* the same tree with a script file that cannot be read
BrokenListing == <<EntryOf(<<"2">>, "js+badsh"), EntryOf(<<"1">>, "js")>>

Trees == {ExampleListing, BrokenListing}

\* item lists of at most MaxItems different entries
ItemLists ==
    {ds \in UNION {[1..k -> Dirs] : k \in 0..MaxItems} :
        \A i, j \in 1..Len(ds) : i # j => ds[i] # ds[j]}

CategoryNames == <<"Basics", "Modules", "Testing", "Extras">>

\* catalogs of at most MaxCats categories in which no entry is listed twice
Catalogs ==
    {[categories |-> [c \in 1..Len(ls) |->
                         [name  |-> CategoryNames[c],
                          items |-> [k \in 1..Len(ls[c]) |-> Meta(ls[c][k])]]]] :
        ls \in {l \in UNION {[1..n -> ItemLists] : n \in 0..MaxCats} :
                   \A c, d \in 1..Len(l) : \A i \in 1..Len(l[c]) : \A j \in 1..Len(l[d]) :
                       (c # d \/ i # j) => l[c][i] # l[d][j]}}

\* contents.json missing, not JSON, or without the categories/items shape
BadCatalogs ==
    {CatalogMissing,
     CatalogUnparseable,
     [title |-> "no categories"],
     [categories |-> <<[name |-> "Basics"]>>],
     [categories |-> <<[name |-> "Basics", items |-> <<Meta("a")>>], [name |-> "Modules"]>>]}

Init ==
    /\ pc = "start"
    /\ catalog \in Catalogs \cup BadCatalogs
    /\ \E present \in SUBSET Dirs : fs \in [present -> Trees]
    /\ filteredExamples = <<>>
    /\ filteredCategories = <<>>
    /\ index = 0
    /\ sitemap = <<>>
    /\ rendered = <<>>
    /\ written = <<>>
    /\ SiteInit
    /\ DevInit
    /\ exampleMeta = Undefined
    /\ text = <<>>
    /\ lang = "javascript"
    /\ sections = <<>>
    /\ contents = <<>>

\* lines 143-162: the catalog is read, flattened and filtered
LoadCatalog ==
    /\ pc = "start"
    /\ ~CatalogThrows(catalog)
    /\ filteredExamples' = ExistingItems(FlatItems(catalog.categories), fs)
    /\ filteredCategories' = FilterCategories(catalog.categories, fs)
    /\ pc' = "index"
    /\ UNCHANGED <<catalog, fs, index, sitemap, rendered, written, exampleMeta>>
    /\ UNCHANGED segVars
    /\ UNCHANGED devVars
    /\ UNCHANGED siteVars

\* a slip in lines 146-154: the error caught and the build carried on with an
\* empty catalog
LoadCatalogSwallowed ==
    /\ pc = "start"
    /\ CatalogThrows(catalog)
    /\ filteredExamples' = <<>>
    /\ filteredCategories' = <<>>
    /\ pc' = "index"
    /\ UNCHANGED <<catalog, fs, index, sitemap, rendered, written, exampleMeta>>
    /\ UNCHANGED segVars
    /\ UNCHANGED devVars
    /\ UNCHANGED siteVars

\* lines 146-154: reading, parsing or flattening the catalog throws, and
\* buildSite with it
LoadCatalogThrows ==
    /\ pc = "start"
    /\ CatalogThrows(catalog)
    /\ pc' = "thrown"
    /\ UNCHANGED <<catalog, fs, filteredExamples, filteredCategories, index, sitemap,
                   rendered, written, exampleMeta>>
    /\ UNCHANGED segVars
    /\ UNCHANGED devVars
    /\ UNCHANGED siteVars

\* lines 164-171: the index page is rendered
RenderIndex ==
    /\ pc = "index"
    /\ LET call == RenderCall(IndexTemplate,
                              IndexPayload(filteredExamples, filteredCategories),
                              NoOverride)
       IN  /\ rendered' = Append(rendered, call)
           /\ written' = Append(written, HtmlFileOf(call))
           /\ siteDir' = WriteFile(siteDir, HtmlFileOf(call), HtmlOf(call))
    /\ pc' = "sitemap"
    /\ UNCHANGED <<catalog, fs, filteredExamples, filteredCategories, index, sitemap,
                   exampleMeta>>
    /\ UNCHANGED segVars
    /\ UNCHANGED devVars
    /\ UNCHANGED <<today, runs>>

\* lines 173-174: sitemap.xml is written
GenerateSitemap ==
    /\ pc = "sitemap"
    /\ sitemap' = GenerateSitemapLocs(filteredExamples)
    /\ written' = Append(written, SitemapName)
    /\ siteDir' = WriteFile(siteDir, SitemapName, SitemapXml(sitemap', today))
    /\ pc' = "examples"
    /\ UNCHANGED <<catalog, fs, filteredExamples, filteredCategories, index, rendered,
                   exampleMeta>>
    /\ UNCHANGED segVars
    /\ UNCHANGED devVars
    /\ UNCHANGED <<today, runs>>

\* a slip in line 179: next and previous assigned to the entry itself
\* (data.next = next) and not to a copy of it
RenderExampleInPlace ==
    /\ pc = "examples"
    /\ index < Len(filteredExamples)
    /\ exampleMeta' = ExampleWithNav(filteredExamples, index)
    /\ ~LoadThrows(exampleMeta', fs)
    /\ filteredExamples' = [filteredExamples EXCEPT ![index + 1] = exampleMeta']
    /\ rendered' = rendered \o RenderSingleExamplePage(exampleMeta', fs)
    /\ written' = written \o WritesOf(RenderSingleExamplePage(exampleMeta', fs))
    /\ siteDir' = WriteCalls(siteDir, RenderSingleExamplePage(exampleMeta', fs))
    /\ index' = index + 1
    /\ UNCHANGED <<pc, catalog, fs, filteredCategories, sitemap>>
    /\ UNCHANGED segVars
    /\ UNCHANGED devVars
    /\ UNCHANGED <<today, runs>>

\* lines 176-182: one iteration of the loop over filteredExamples
RenderExample ==
    /\ pc = "examples"
    /\ index < Len(filteredExamples)
    /\ exampleMeta' = ExampleWithNav(filteredExamples, index)
    /\ ~LoadThrows(exampleMeta', fs)
    /\ rendered' = rendered \o RenderSingleExamplePage(exampleMeta', fs)
    /\ written' = written \o WritesOf(RenderSingleExamplePage(exampleMeta', fs))
    /\ siteDir' = WriteCalls(siteDir, RenderSingleExamplePage(exampleMeta', fs))
    /\ index' = index + 1
    /\ UNCHANGED <<pc, catalog, fs, filteredExamples, filteredCategories, sitemap>>
    /\ UNCHANGED segVars
    /\ UNCHANGED devVars
    /\ UNCHANGED <<today, runs>>

\* a slip in lines 88-100: the error of a read kept and thrown after the page
\* was rendered and written
RenderExampleThrowsLate ==
    /\ pc = "examples"
    /\ index < Len(filteredExamples)
    /\ exampleMeta' = ExampleWithNav(filteredExamples, index)
    /\ LoadThrows(exampleMeta', fs)
    /\ rendered' = rendered \o RenderSingleExamplePage(exampleMeta', fs)
    /\ written' = written \o WritesOf(RenderSingleExamplePage(exampleMeta', fs))
    /\ siteDir' = WriteCalls(siteDir, RenderSingleExamplePage(exampleMeta', fs))
    /\ pc' = "thrown"
    /\ UNCHANGED <<catalog, fs, filteredExamples, filteredCategories, index, sitemap>>
    /\ UNCHANGED segVars
    /\ UNCHANGED devVars
    /\ UNCHANGED <<today, runs>>

\* lines 176-182: renderSingleExamplePage throws on a read, and buildSite with it
RenderExampleThrows ==
    /\ pc = "examples"
    /\ index < Len(filteredExamples)
    /\ exampleMeta' = ExampleWithNav(filteredExamples, index)
    /\ LoadThrows(exampleMeta', fs)
    /\ pc' = "thrown"
    /\ UNCHANGED <<catalog, fs, filteredExamples, filteredCategories, index, sitemap,
                   rendered, written>>
    /\ UNCHANGED segVars
    /\ UNCHANGED devVars
    /\ UNCHANGED siteVars

\* line 183: the loop is over and buildSite returns
Finish ==
    /\ pc = "examples"
    /\ index = Len(filteredExamples)
    /\ pc' = "done"
    /\ UNCHANGED <<catalog, fs, filteredExamples, filteredCategories, index, sitemap,
                   rendered, written, exampleMeta>>
    /\ UNCHANGED segVars
    /\ UNCHANGED devVars
    /\ UNCHANGED siteVars

Next ==
    \/ LoadCatalog
    \/ LoadCatalogThrows
    \/ RenderIndex
    \/ GenerateSitemap
    \/ RenderExample
    \/ RenderExampleThrows
    \/ Finish

Spec == Init /\ [][Next]_vars

\* the environment removes an example directory while the build runs, after
\* the catalog was filtered
RemoveExampleDir ==
    /\ pc \in {"index", "sitemap", "examples"}
    /\ \E d \in DOMAIN fs : fs' = [x \in DOMAIN fs \ {d} |-> fs[x]]
    /\ UNCHANGED <<pc, catalog, filteredExamples, filteredCategories, index, sitemap,
                   rendered, written, exampleMeta>>
    /\ UNCHANGED segVars
    /\ UNCHANGED devVars
    /\ UNCHANGED siteVars

NextRace == Next \/ RemoveExampleDir

\* buildSite on an examples directory that changes under it
SpecRace == Init /\ [][NextRace]_vars

\* the tree with every file made readable: the cause of an aborted run removed
Repaired(tree) ==
    [d \in DOMAIN tree |->
        [i \in 1..Len(tree[d]) |->
            [tree[d][i] EXCEPT !.files =
                [k \in 1..Len(tree[d][i].files) |->
                    [tree[d][i].files[k] EXCEPT !.readable = TRUE]]]]]

\* lines 142-183: buildSite is run again, after a run that returned or threw,
\* with the same catalog and examples and on the output directory as that run
\* left it; the day may have changed
RunAgain ==
    /\ pc \in {"done", "thrown"}
    /\ Len(runs) + 1 < MaxRuns
    /\ runs' = Append(runs, pc)
    /\ pc' = "start"
    /\ fs' \in {fs, Repaired(fs)}
    /\ today' \in {today, today + 1}
    /\ filteredExamples' = <<>>
    /\ filteredCategories' = <<>>
    /\ index' = 0
    /\ sitemap' = <<>>
    /\ rendered' = <<>>
    /\ written' = <<>>
    /\ exampleMeta' = Undefined
    /\ UNCHANGED <<catalog, siteDir>>
    /\ UNCHANGED segVars
    /\ UNCHANGED devVars

NextRerun == Next \/ RunAgain

SpecRerun == Init /\ [][NextRerun]_vars

(***************************************************************************)
(* The dev server (tools/server.js): watcher events, the debounce timer,   *)
(* the rebuild in the timer callback and the reload notification.          *)
(* Time is counted in ticks of TickMs; a timer may fire once its delay     *)
(* has passed and the event loop is free, not earlier and maybe later.     *)
(***************************************************************************)
DebounceMs == 200
ReloadDelayMs == 100
TickMs == ReloadDelayMs
DebounceTicks == DebounceMs \div TickMs
ReloadTicks == ReloadDelayMs \div TickMs

Viewers == 1..MaxViewers

\* a slip in lines 114-137: the callback awaits an asynchronous build, so that
\* the event loop runs other callbacks while a rebuild is in progress
LoopIdleAlways == TRUE

\* lines 114-137: the timer callback has no await and buildSite is synchronous,
\* so no other callback runs until it has returned
LoopIdle == ~busy

\* setTimeout(callback, ms)
Timer(kind, id, ticks) == [kind |-> kind, id |-> id, remaining |-> ticks]
RebuildTimers == {t \in timers : t.kind = "rebuild"}
ReloadTimers == {t \in timers : t.kind = "reload"}

\* a slip in lines 110-112: the timer of the event before is left to fire
ClearTimeoutNot(ts, id) == ts

\* lines 110-112: clearTimeout(rebuildTimeout); nothing happens for null or
\* for a timer that has fired
ClearTimeout(ts, id) == {t \in ts : ~(t.kind = "rebuild" /\ t.id = id)}

\* watcher events delivered to scheduleRebuild so far
Delivered == seen - queued

\* lines 148-157: a file under the watched paths is changed, added or removed;
\* chokidar queues the event for the event loop
FileChanges ==
    /\ seen < MaxEvents
    /\ seen' = seen + 1
    /\ queued' = queued + 1
    /\ rebuilds' = [k \in 1..Len(rebuilds) |->
                        IF rebuilds[k].outcome = "running"
                        THEN [rebuilds[k] EXCEPT !.during = @ + 1]
                        ELSE rebuilds[k]]
    /\ UNCHANGED <<clients, open, rebuildTimeout, isRebuilding, timers, busy, quiet,
                   reloads>>
    /\ UNCHANGED genVars

\* lines 109-138: the event loop delivers a watcher event to scheduleRebuild
ScheduleRebuild ==
    /\ LoopIdle
    /\ queued > 0
    /\ queued' = queued - 1
    /\ timers' = ClearTimeout(timers, rebuildTimeout)
                     \cup {Timer("rebuild", Delivered + 1, DebounceTicks)}
    /\ rebuildTimeout' = Delivered + 1
    /\ quiet' = 0
    /\ UNCHANGED <<clients, open, isRebuilding, busy, seen, rebuilds, reloads>>
    /\ UNCHANGED genVars

\* TickMs pass
Tick ==
    /\ timers' = {[t EXCEPT !.remaining = IF @ > 0 THEN @ - 1 ELSE 0] : t \in timers}
    /\ quiet' = IF quiet < DebounceTicks THEN quiet + 1 ELSE quiet
    /\ UNCHANGED <<clients, open, rebuildTimeout, isRebuilding, busy, queued, seen,
                   rebuilds, reloads>>
    /\ UNCHANGED genVars

\* a rebuild as the history keeps it: the timer that started it, the events
\* delivered and the changes made before it started, the ticks since the last
\* event, the changes made while it ran, and how buildSite ended
Rebuild(t) ==
    [timer |-> t.id, delivered |-> Delivered, after |-> seen, quiet |-> quiet,
     during |-> 0, outcome |-> "running"]

InProgress == {k \in 1..Len(rebuilds) : rebuilds[k].outcome = "running"}

\* a slip in lines 114-123: the guard left out and the build awaited
\* (await buildSite()), so that the event loop is free during the rebuild
FireRebuildTimerAwaiting ==
    /\ \E t \in RebuildTimers :
           /\ t.remaining = 0
           /\ timers' = timers \ {t}
           /\ isRebuilding' = TRUE
           /\ rebuilds' = Append(rebuilds, Rebuild(t))
    /\ UNCHANGED <<clients, open, rebuildTimeout, busy, queued, seen, quiet, reloads>>
    /\ UNCHANGED genVars

\* lines 114-123: the debounce timer fires; the callback returns at once when
\* isRebuilding is set, otherwise it sets it and calls buildSite
FireRebuildTimer ==
    /\ LoopIdle
    /\ \E t \in RebuildTimers :
           /\ t.remaining = 0
           /\ timers' = timers \ {t}
           /\ IF isRebuilding
              THEN UNCHANGED <<isRebuilding, busy, rebuilds>>
              ELSE /\ isRebuilding' = TRUE
                   /\ busy' = TRUE
                   /\ rebuilds' = Append(rebuilds, Rebuild(t))
    /\ UNCHANGED <<clients, open, rebuildTimeout, queued, seen, quiet, reloads>>
    /\ UNCHANGED genVars

\* lines 123-131, 134-136: buildSite returns; the reload is scheduled and the
\* finally block resets the flag
BuildReturns ==
    /\ \E k \in InProgress :
           /\ rebuilds' = [rebuilds EXCEPT ![k].outcome = "done"]
           /\ timers' = timers \cup {Timer("reload", k, ReloadTicks)}
    /\ isRebuilding' = FALSE
    /\ busy' = FALSE
    /\ UNCHANGED <<clients, open, rebuildTimeout, queued, seen, quiet, reloads>>
    /\ UNCHANGED genVars

\* a slip in lines 132-136: no finally block, the flag reset after buildSite
\* in the try block only
BuildThrowsStuck ==
    /\ \E k \in InProgress : rebuilds' = [rebuilds EXCEPT ![k].outcome = "thrown"]
    /\ busy' = FALSE
    /\ UNCHANGED <<clients, open, rebuildTimeout, isRebuilding, timers, queued, seen,
                   quiet, reloads>>
    /\ UNCHANGED genVars

\* lines 123, 132-136: buildSite throws; the error is logged and the finally
\* block resets the flag
BuildThrows ==
    /\ \E k \in InProgress : rebuilds' = [rebuilds EXCEPT ![k].outcome = "thrown"]
    /\ isRebuilding' = FALSE
    /\ busy' = FALSE
    /\ UNCHANGED <<clients, open, rebuildTimeout, timers, queued, seen, quiet, reloads>>
    /\ UNCHANGED genVars

\* a run of notifyClients as the history keeps it: the rebuild it follows,
\* the responses written to whose connection is closed, and the viewers
\* connected that were not written to
Reload(t) ==
    [rebuild |-> t.id, stale |-> clients \ open, missed |-> open \ clients]

\* lines 63-67, 128-131: the reload timer fires and notifyClients writes
\* "data: reload" to every response in the Set
FireReloadTimer ==
    /\ LoopIdle
    /\ \E t \in ReloadTimers :
           /\ t.remaining = 0
           /\ timers' = timers \ {t}
           /\ reloads' = Append(reloads, Reload(t))
    /\ UNCHANGED <<clients, open, rebuildTimeout, isRebuilding, busy, queued, seen, quiet,
                   rebuilds>>
    /\ UNCHANGED genVars

\* lines 42-55: a viewer opens /livereload and its response joins the Set
Connect ==
    /\ LoopIdle
    /\ \E v \in Viewers \ open :
           /\ open' = open \cup {v}
           /\ clients' = clients \cup {v}
    /\ UNCHANGED <<rebuildTimeout, isRebuilding, timers, busy, queued, seen, quiet,
                   rebuilds, reloads>>
    /\ UNCHANGED genVars

\* a slip in lines 57-59: no 'close' handler
DisconnectKept ==
    /\ LoopIdle
    /\ \E v \in open : open' = open \ {v}
    /\ UNCHANGED <<clients, rebuildTimeout, isRebuilding, timers, busy, queued, seen,
                   quiet, rebuilds, reloads>>
    /\ UNCHANGED genVars

\* lines 57-59: the connection of a viewer closes and the 'close' handler
\* removes its response from the Set
Disconnect ==
    /\ LoopIdle
    /\ \E v \in open :
           /\ open' = open \ {v}
           /\ clients' = clients \ {v}
    /\ UNCHANGED <<rebuildTimeout, isRebuilding, timers, busy, queued, seen, quiet,
                   rebuilds, reloads>>
    /\ UNCHANGED genVars

\* lines 165-179: the initial build is done, the server listens and the
\* watcher is set up
InitDev ==
    /\ pc = "serving"
    /\ text = <<>>
    /\ lang = "javascript"
    /\ sections = <<>>
    /\ contents = <<>>
    /\ fs = <<>>
    /\ exampleMeta = Undefined
    /\ catalog = Undefined
    /\ filteredExamples = <<>>
    /\ filteredCategories = <<>>
    /\ index = 0
    /\ sitemap = <<>>
    /\ rendered = <<>>
    /\ written = <<>>
    /\ SiteInit
    /\ DevInit

NextDev ==
    \/ FileChanges
    \/ ScheduleRebuild
    \/ Tick
    \/ FireRebuildTimer
    \/ BuildReturns
    \/ BuildThrows
    \/ FireReloadTimer
    \/ Connect
    \/ Disconnect

SpecDev == InitDev /\ [][NextDev]_vars

\* the event loop delivers every queued event and runs every timer that is due,
\* time passes, and a call of buildSite ends
SpecDevFair ==
    /\ SpecDev
    /\ WF_vars(ScheduleRebuild)
    /\ WF_vars(Tick)
    /\ WF_vars(FireRebuildTimer)
    /\ WF_vars(BuildReturns \/ BuildThrows)
    /\ WF_vars(FireReloadTimer)

(***************************************************************************)
(* Properties of the navigation                                            *)
(***************************************************************************)
\* the call that rendered the page of the entry at 1-based position i: the
\* index page is rendered first, then one page per entry
PageOf(i) == rendered[i + 1]

\* C1: the page of the entry at position i is rendered with next = the entry
\* at i+1, or the root sentinel at the last position, and previous = the
\* entry at i-1, or the root sentinel at the first position.
C1_LinearNavigation ==
    pc \in {"examples", "done"} =>
        /\ Len(rendered) = index + 1
        /\ \A i \in 1..index :
               /\ PageOf(i).template = ContentTemplate
               /\ PageOf(i).data.slug = filteredExamples[i].slug
               /\ PageOf(i).data.title = filteredExamples[i].title
               /\ PageOf(i).data.next =
                      IF i = Len(filteredExamples) THEN Root ELSE filteredExamples[i + 1]
               /\ PageOf(i).data.previous =
                      IF i = 1 THEN Root ELSE filteredExamples[i - 1]

\* the build of a catalog with three entries, all present, is complete
C1_Witness ==
    /\ pc = "done"
    /\ Len(filteredExamples) = 3
    /\ Len(rendered) = 4
    /\ PageOf(2).data.next = filteredExamples[3]
    /\ PageOf(2).data.previous = filteredExamples[1]

\* C2: when the filtered list is not empty, the index page is rendered with
\* next = the first filtered entry and previous = the last one.
C2_IndexWraps ==
    (pc \in {"sitemap", "examples", "done"} /\ filteredExamples # <<>>) =>
        /\ rendered[1].template = IndexTemplate
        /\ rendered[1].data.next = filteredExamples[1]
        /\ rendered[1].data.previous = filteredExamples[Len(filteredExamples)]

\* the index page of a catalog with two or more surviving entries was rendered
C2_Witness ==
    /\ pc = "sitemap"
    /\ Len(filteredExamples) >= 2
    /\ Len(rendered) = 1
    /\ rendered[1].data.next # rendered[1].data.previous

\* the values a navigation target may take: an entry of the filtered catalog
\* or the root sentinel
NavTargets == {filteredExamples[i] : i \in 1..Len(filteredExamples)} \cup {Root}

\* C3: every payload handed to the renderer, the index page included, has
\* next and previous that are an entry of the filtered catalog or the root
\* sentinel, also when no entry's directory exists.
C3_NavigationDefined ==
    \A k \in 1..Len(rendered) :
        /\ rendered[k].data.next \in NavTargets
        /\ rendered[k].data.previous \in NavTargets

(***************************************************************************)
(* Properties of the build                                                 *)
(***************************************************************************)
Range(f) == {f[k] : k \in 1..Len(f)}

\* the catalog has the categories/items shape
WellFormed(c) ==
    /\ "categories" \in DOMAIN c
    /\ \A i \in 1..Len(c.categories) : "items" \in DOMAIN c.categories[i]

\* the catalog was read, flattened and filtered
Loaded == WellFormed(catalog) /\ pc # "start"

\* the places <<category, item>> of the catalog, and their order
Places ==
    UNION {{<<c, i>> : i \in 1..Len(catalog.categories[c].items)} :
              c \in 1..Len(catalog.categories)}
Before(p, q) == p[1] < q[1] \/ (p[1] = q[1] /\ p[2] < q[2])
EntryAt(p) == catalog.categories[p[1]].items[p[2]]

OnDisk(entry) == entry.dir \in DOMAIN fs
Surviving == {p \in Places : OnDisk(EntryAt(p))}
Missing == Places \ Surviving

\* the position of a surviving place among the surviving places
RankOf(p) == Cardinality({q \in Surviving : Before(q, p)}) + 1

\* the calls of renderSinglePage made for the page of `slug`
CallsFor(slug) == {k \in 1..Len(rendered) : rendered[k].data.slug = slug}

\* the first regular file of `files` whose name ends in `suffix` cannot be read
FirstIsUnreadable(files, suffix) ==
    \E k \in 1..Len(files) :
        /\ files[k].isFile
        /\ EndsWith(files[k].name, suffix)
        /\ ~files[k].readable
        /\ \A j \in 1..(k - 1) : ~(files[j].isFile /\ EndsWith(files[j].name, suffix))

\* a subdirectory of the example holds a code or script file that the loader
\* finds and that cannot be read
Unreadable(entry) ==
    /\ OnDisk(entry)
    /\ \E i \in 1..Len(fs[entry.dir]) :
           /\ fs[entry.dir][i].isDirectory
           /\ \/ FirstIsUnreadable(fs[entry.dir][i].files, DotJs)
              \/ FirstIsUnreadable(fs[entry.dir][i].files, DotSh)

\* C13: an entry whose directory does not exist is left out of the flat list,
\* of its category and of the sitemap, gets no page and is nobody's next or
\* previous; the surviving entries are linked to each other across it, and a
\* build that returns has rendered every surviving entry. The build never
\* throws because of it.
C13_MissingDirNonFatal ==
    Loaded =>
        /\ \A p \in Missing :
               /\ EntryAt(p) \notin Range(filteredExamples)
               /\ \A c \in 1..Len(filteredCategories) :
                      EntryAt(p) \notin Range(filteredCategories[c].items)
               /\ LocOf(EntryAt(p).slug) \notin Range(sitemap)
               /\ CallsFor(EntryAt(p).slug) = {}
               /\ PageFileOf(EntryAt(p)) \notin Range(written)
               /\ \A k \in 1..Len(rendered) :
                      /\ rendered[k].data.next # EntryAt(p)
                      /\ rendered[k].data.previous # EntryAt(p)
        /\ \A p \in Surviving : \A k \in CallsFor(EntryAt(p).slug) :
               /\ rendered[k].data.next =
                      IF \E q \in Surviving : RankOf(q) = RankOf(p) + 1
                      THEN EntryAt(CHOOSE q \in Surviving : RankOf(q) = RankOf(p) + 1)
                      ELSE Root
               /\ rendered[k].data.previous =
                      IF \E q \in Surviving : RankOf(q) = RankOf(p) - 1
                      THEN EntryAt(CHOOSE q \in Surviving : RankOf(q) = RankOf(p) - 1)
                      ELSE Root
        /\ pc = "done" =>
               \A p \in Surviving : Cardinality(CallsFor(EntryAt(p).slug)) = 1
        /\ pc = "thrown" => \E p \in Surviving : Unreadable(EntryAt(p))

\* the build returned for a catalog whose middle entry has no directory: the
\* first entry's next is the third
C13_Witness ==
    /\ Loaded
    /\ pc = "done"
    /\ Cardinality(Places) = 3
    /\ \E p \in Missing : \E q, r \in Surviving : Before(q, p) /\ Before(p, r)
    /\ Len(rendered) = 3
    /\ rendered[2].data.next = filteredExamples[2]
    /\ rendered[3].data.previous = filteredExamples[1]

\* the categories that keep an item
KeptCategories == {c \in 1..Len(catalog.categories) : \E p \in Surviving : p[1] = c}
CategoryRank(c) == Cardinality({d \in KeptCategories : d < c}) + 1

\* C14: the filtered categories are the catalog's categories that keep an
\* existing item, in catalog order, each with its existing items in catalog
\* order; their items concatenated are the filtered flat list, and they are
\* what the index page gets.
C14_FilteredCategories ==
    Loaded =>
        /\ Len(filteredCategories) = Cardinality(KeptCategories)
        /\ \A c \in KeptCategories :
               /\ filteredCategories[CategoryRank(c)].name = catalog.categories[c].name
               /\ filteredCategories[CategoryRank(c)].items =
                      SelectSeq(catalog.categories[c].items, OnDisk)
        /\ \A k \in 1..Len(filteredCategories) : filteredCategories[k].items # <<>>
        /\ FlatItems(filteredCategories) = filteredExamples
        /\ Len(rendered) >= 1 => rendered[1].data.categories = filteredCategories

\* the first category lost all its items and was dropped, the second lost one
C14_Witness ==
    /\ Loaded
    /\ pc = "sitemap"
    /\ Len(catalog.categories) = 2
    /\ Len(catalog.categories[1].items) = 1
    /\ Len(catalog.categories[2].items) = 2
    /\ KeptCategories = {2}
    /\ Len(filteredCategories) = 1
    /\ Len(filteredCategories[1].items) = 1
    /\ Len(rendered) = 1

\* C15: the flat list holds the surviving entries by category first and by
\* position in the category second; the sitemap and the pages follow it.
C15_FlatOrder ==
    Loaded =>
        /\ Len(filteredExamples) = Cardinality(Surviving)
        /\ \A p \in Surviving : filteredExamples[RankOf(p)] = EntryAt(p)
        /\ sitemap # <<>> =>
               \A p \in Surviving : sitemap[RankOf(p) + 1] = LocOf(EntryAt(p).slug)
        /\ \A p \in Surviving :
               RankOf(p) <= index => rendered[RankOf(p) + 1].data.slug = EntryAt(p).slug

\* the build returned for two categories, of two items and of one, all on disk
C15_Witness ==
    /\ Loaded
    /\ pc = "done"
    /\ Len(catalog.categories) = 2
    /\ Len(catalog.categories[1].items) = 2
    /\ Len(catalog.categories[2].items) = 1
    /\ Cardinality(Surviving) = 3
    /\ Len(rendered) = 4
    /\ Len(sitemap) = 4

HtmlFiles == {f \in Range(written) : EndsWith(f, DotHtml)}
TimesWritten(f) == Cardinality({k \in 1..Len(written) : written[k] = f})
IndexFile == IndexTemplate \o DotHtml

\* C16: a build that returns has written index.html, one <slug>.html per
\* surviving entry and sitemap.xml, each once, and nothing else.
C16_OutputFiles ==
    (Loaded /\ pc = "done") =>
        /\ HtmlFiles = {IndexFile} \cup {PageFileOf(EntryAt(p)) : p \in Surviving}
        /\ Cardinality(HtmlFiles) = Cardinality(Surviving) + 1
        /\ \A f \in HtmlFiles : TimesWritten(f) = 1
        /\ TimesWritten(SitemapName) = 1
        /\ Range(written) = HtmlFiles \cup {SitemapName}

\* no surviving entry has a slug that holds the template suffix
PlainSlugs == \A p \in Surviving : IndexOf(EntryAt(p).slug, DotPug) = 0

\* the same for catalogs of plain slugs
OutputFilesOfPlainSlugs == (Loaded /\ PlainSlugs) => C16_OutputFiles

TimesListed(loc) == Cardinality({k \in 1..Len(sitemap) : sitemap[k] = loc})

\* C17: the sitemap that was written lists the root once, every surviving
\* entry once under its slug, and nothing else.
C17_Sitemap ==
    (Loaded /\ SitemapName \in Range(written)) =>
        /\ TimesListed(RootLoc) = 1
        /\ \A p \in Surviving : TimesListed(LocOf(EntryAt(p).slug)) = 1
        /\ \A p \in Missing : TimesListed(LocOf(EntryAt(p).slug)) = 0
        /\ Len(sitemap) = Cardinality(Surviving) + 1

\* the sitemap was written for a catalog with a surviving and a missing entry
C17_Witness ==
    /\ Loaded
    /\ pc = "examples"
    /\ SitemapName \in Range(written)
    /\ Surviving # {}
    /\ Missing # {}
    /\ Len(sitemap) >= 2

\* C18: with a catalog file that is missing, not JSON or without the
\* categories/items shape, buildSite throws and has written nothing.
C18_BadCatalogFatal ==
    (catalog = CatalogMissing \/ catalog = CatalogUnparseable \/ ~WellFormed(catalog)) =>
        /\ pc \in {"start", "thrown"}
        /\ rendered = <<>>
        /\ written = <<>>
        /\ sitemap = <<>>

\* buildSite threw on a catalog whose second category has no items
C18_Witness ==
    /\ pc = "thrown"
    /\ "categories" \in DOMAIN catalog
    /\ Len(catalog.categories) = 2
    /\ "items" \notin DOMAIN catalog.categories[2]
    /\ written = <<>>

\* C19: the build never gets past an entry that holds a code or script file
\* that cannot be read: no page is rendered or written for it, the build does
\* not return, and when it throws after the catalog was loaded the entry it
\* was loading is such an entry.
C19_UnreadableFatal ==
    Loaded =>
        /\ \A r \in 1..Len(filteredExamples) :
               Unreadable(filteredExamples[r]) =>
                   /\ index < r
                   /\ pc # "done"
                   /\ CallsFor(filteredExamples[r].slug) = {}
                   /\ PageFileOf(filteredExamples[r]) \notin Range(written)
        /\ pc = "thrown" =>
               /\ index < Len(filteredExamples)
               /\ Unreadable(filteredExamples[index + 1])

\* the build threw on its second entry, after the page of the first
C19_Witness ==
    /\ Loaded
    /\ pc = "thrown"
    /\ index = 1
    /\ Len(rendered) = 2
    /\ Unreadable(filteredExamples[2])
    /\ ~Unreadable(filteredExamples[1])

\* C20: when the directory of the entry the loop is at does not exist, the
\* iteration renders and writes nothing, does not throw, and the loop moves
\* on to the next entry.
C20_RemovedDirSkipped ==
    [][(/\ pc = "examples"
        /\ index < Len(filteredExamples)
        /\ filteredExamples[index + 1].dir \notin DOMAIN fs
        /\ fs' = fs)
       => (/\ pc' = "examples"
           /\ index' = index + 1
           /\ rendered' = rendered
           /\ written' = written)]_vars

\* the build returned although the directory of its first entry was removed
\* after filtering: that entry has no page, the next one has
C20_Witness ==
    /\ pc = "done"
    /\ Len(filteredExamples) >= 2
    /\ filteredExamples[1].dir \notin DOMAIN fs
    /\ PageFileOf(filteredExamples[1]) \notin Range(written)
    /\ PageFileOf(filteredExamples[2]) \in Range(written)

\* the output directory one run of buildSite that returns leaves, from an
\* empty directory
SingleRun(c, tree, day) ==
    LET examples == ExistingItems(FlatItems(c.categories), tree)
        categories == FilterCategories(c.categories, tree)
        indexCall == RenderCall(IndexTemplate, IndexPayload(examples, categories),
                                NoOverride)
        page == [i \in 1..Len(examples) |->
                    RenderSingleExamplePage(ExampleWithNav(examples, i - 1), tree)[1]]
        pageFiles == {HtmlFileOf(page[i]) : i \in 1..Len(examples)}
    IN  [f \in {HtmlFileOf(indexCall), SitemapName} \cup pageFiles |->
            IF f = HtmlFileOf(indexCall) THEN HtmlOf(indexCall)
            ELSE IF f = SitemapName
                 THEN SitemapXml(GenerateSitemapLocs(examples), day)
                 ELSE HtmlOf(page[CHOOSE i \in 1..Len(examples) : HtmlFileOf(page[i]) = f])]

\* C21: after any run of buildSite that returns, the first or a later one,
\* after a run that returned or a run that threw, the output directory holds
\* the files of a single run that returns, with the contents that run gives
\* them, and every one of them was written by this run.
C21_RebuildIdempotent ==
    (Loaded /\ pc = "done") =>
        /\ siteDir = SingleRun(catalog, fs, today)
        /\ DOMAIN siteDir = Range(written)

\* a run that returned on the second day, after a run that threw
C21_Witness ==
    /\ Loaded
    /\ pc = "done"
    /\ runs = <<"thrown">>
    /\ today = 2
    /\ Len(filteredExamples) = 2
    /\ Cardinality(DOMAIN siteDir) = 4
    /\ siteDir[SitemapName].lastmod = 2

\* the files written once the build has got past `done` of its entries
FilesInOrder(done) ==
    <<IndexFile, SitemapName>> \o
    [i \in 1..done |-> HtmlFileOf(rendered[i + 1])]

\* C26: the index page is written first, then the sitemap, then the pages in
\* the order of the filtered list, one per iteration; a build that throws while
\* loading entry k has written the index, the sitemap and the pages of the
\* k-1 entries before it, and nothing of entry k or of a later one.
C26_SequentialOutputs ==
    Loaded =>
        /\ pc = "index" => (written = <<>> /\ rendered = <<>>)
        /\ pc = "sitemap" => (written = <<IndexFile>> /\ Len(rendered) = 1)
        /\ pc \in {"examples", "done", "thrown"} =>
               /\ Len(rendered) = index + 1
               /\ written = FilesInOrder(index)
               /\ \A i \in 1..index :
                      /\ rendered[i + 1].template = ContentTemplate
                      /\ rendered[i + 1].data.slug = filteredExamples[i].slug
        /\ pc = "done" => index = Len(filteredExamples)
        /\ pc = "thrown" =>
               /\ index < Len(filteredExamples)
               /\ \A i \in (index + 1)..Len(filteredExamples) :
                      CallsFor(filteredExamples[i].slug) = {}

\* the build threw while loading its third entry
C26_Witness ==
    /\ Loaded
    /\ pc = "thrown"
    /\ index = 2
    /\ Len(filteredExamples) = 3
    /\ Len(written) = 4

\* the page of `slug` is among the files this build wrote
PageWritten(slug) == slug \o DotHtml \in Range(written)

\* a next or previous of a payload leads to the root or to a page written
LinkResolves(target) ==
    "slug" \in DOMAIN target =>
        IF target.slug = Root.slug THEN IndexFile \in Range(written)
        ELSE PageWritten(target.slug)

\* C27: a build that returns leaves no dangling link: the next and previous of
\* every rendered page, every item of the index page's categories and every
\* URL of the sitemap lead to a page this build wrote, or to the root, whose
\* index page it wrote - also when a directory disappears after the filtering.
C27_NoDanglingLinks ==
    (Loaded /\ pc = "done") =>
        /\ \A k \in 1..Len(rendered) :
               /\ LinkResolves(rendered[k].data.next)
               /\ LinkResolves(rendered[k].data.previous)
        /\ \A c \in 1..Len(rendered[1].data.categories) :
               \A i \in 1..Len(rendered[1].data.categories[c].items) :
                   PageWritten(rendered[1].data.categories[c].items[i].slug)
        /\ \A j \in 1..Len(sitemap) :
               \/ sitemap[j] = RootLoc /\ IndexFile \in Range(written)
               \/ \E e \in Range(filteredExamples) :
                      sitemap[j] = LocOf(e.slug) /\ PageWritten(e.slug)

\* no filtered entry has lost its directory
NothingRemoved == \A e \in Range(filteredExamples) : OnDisk(e)

\* the same over plain slugs: violated when a directory disappears after the
\* filtering
NoDanglingLinksOfPlainSlugsRaced == (Loaded /\ PlainSlugs) => C27_NoDanglingLinks

\* the same for builds during which no directory disappears, over plain slugs
NoDanglingLinksOfPlainSlugs ==
    (Loaded /\ PlainSlugs /\ NothingRemoved) => C27_NoDanglingLinks

CatalogFields == {"dir", "slug", "title", "description"}

\* C30: buildSite never changes the parsed catalog, and once they are computed
\* neither the filtered flat list nor the filtered categories: their entries
\* keep the catalog's fields and order, next and previous are carried by the
\* payload of each page only, and they are entries of the filtered list as the
\* catalog gives them, or the root.
C30_NavigationPure ==
    /\ [][/\ catalog' = catalog
          /\ pc # "start" => /\ filteredExamples' = filteredExamples
                             /\ filteredCategories' = filteredCategories]_vars
    /\ [](Loaded =>
            /\ \A i \in 1..Len(filteredExamples) :
                   /\ DOMAIN filteredExamples[i] = CatalogFields
                   /\ filteredExamples[i] \in Range(FlatItems(catalog.categories))
            /\ \A k \in 2..Len(rendered) :
                   /\ rendered[k].data.next \in Range(filteredExamples) \cup {Root}
                   /\ rendered[k].data.previous \in Range(filteredExamples) \cup {Root})

\* the build returned with three pages that carry links, and the entries of
\* the list carry none
C30_Witness ==
    /\ Loaded
    /\ pc = "done"
    /\ Len(filteredExamples) = 3
    /\ rendered[3].data.next = filteredExamples[3]
    /\ rendered[3].data.previous = filteredExamples[1]
    /\ "next" \notin DOMAIN filteredExamples[2]

(***************************************************************************)
(* Properties of the dev server                                            *)
(***************************************************************************)
\* C23: watcher events that each arrive before the timer of the event before
\* has fired are followed by one rebuild: at most one debounce timer is
\* pending, the one of the last event; a rebuild starts from that timer only,
\* DebounceMs or more after the last event was delivered, so that no event of
\* the burst starts a rebuild of its own; and once the last event of a burst
\* is delivered and no other follows, its rebuild does start.
C23_BurstCoalesced ==
    /\ [](/\ Cardinality(RebuildTimers) <= 1
          /\ \A t \in RebuildTimers : t.id = rebuildTimeout /\ t.id = Delivered
          /\ \A k \in 1..Len(rebuilds) :
                 /\ rebuilds[k].timer = rebuilds[k].delivered
                 /\ rebuilds[k].quiet * TickMs >= DebounceMs
                 /\ k > 1 => rebuilds[k - 1].timer < rebuilds[k].timer)
    /\ \A n \in 1..MaxEvents :
           (Delivered = n /\ seen = n) ~>
               (seen > n \/ \E k \in 1..Len(rebuilds) : rebuilds[k].timer = n)

\* one rebuild was started by the timer of the third of three events, none
\* by the timers of the first two
C23_Witness ==
    /\ seen = 3
    /\ Delivered = 3
    /\ Len(rebuilds) = 1
    /\ rebuilds[1].timer = 3
    /\ RebuildTimers = {}

\* C24: at most one rebuild is in progress at any time; isRebuilding is set
\* exactly while one is; a rebuild starts only when the flag is clear and none
\* is in progress; and a debounce timer that fires while the flag is set starts
\* no rebuild.
C24_OneRebuildAtATime ==
    /\ [](/\ Cardinality(InProgress) <= 1
          /\ isRebuilding <=> InProgress # {})
    /\ [][/\ Len(rebuilds') > Len(rebuilds) => (~isRebuilding /\ InProgress = {})
          /\ (isRebuilding /\ Cardinality(RebuildTimers') < Cardinality(RebuildTimers))
                 => rebuilds' = rebuilds]_vars

\* a second rebuild is in progress, the first is over, and an event that came
\* during the rebuild waits for the event loop
C24_Witness ==
    /\ Len(rebuilds) = 2
    /\ InProgress = {2}
    /\ isRebuilding
    /\ queued > 0

\* nothing is pending: no event waits, no timer is set, no callback runs
Quiescent == queued = 0 /\ timers = {} /\ ~busy

ReloadsOf(k) == {j \in 1..Len(reloads) : reloads[j].rebuild = k}

\* what holds of every reload written: it follows a rebuild that has
\* finished, and it went to the viewers connected at that time
ReloadsWellPlaced ==
    /\ \A j \in 1..Len(reloads) :
           /\ reloads[j].rebuild \in 1..Len(rebuilds)
           /\ rebuilds[reloads[j].rebuild].outcome # "running"
           /\ reloads[j].stale = {} /\ reloads[j].missed = {}
    /\ \A t \in ReloadTimers :
           t.id \in 1..Len(rebuilds) /\ rebuilds[t.id].outcome # "running"

\* C25 as stated: every rebuild is followed by a reload, written to exactly
\* the viewers connected at that time and not before the rebuild has
\* finished; once nothing is pending, every rebuild has had its reload.
C25_ReloadAfterEachRebuild ==
    /\ ReloadsWellPlaced
    /\ Quiescent => \A k \in 1..Len(rebuilds) : ReloadsOf(k) # {}

\* C25 amended: every rebuild in which buildSite returned is followed by one
\* reload, written to exactly the viewers connected at that time and not
\* before the rebuild has finished; a rebuild in which buildSite threw is
\* followed by none.
C25_ReloadAfterRebuildThatReturns ==
    /\ [](/\ ReloadsWellPlaced
          /\ \A k \in 1..Len(rebuilds) :
                 /\ Cardinality(ReloadsOf(k)) <= 1
                 /\ rebuilds[k].outcome = "thrown" => ReloadsOf(k) = {}
                 /\ (Quiescent /\ rebuilds[k].outcome = "done") => ReloadsOf(k) # {})
    /\ \A k \in 1..MaxEvents :
           (Len(rebuilds) >= k /\ rebuilds[k].outcome = "done") ~> (ReloadsOf(k) # {})

\* two rebuilds returned and each was followed by its reload; one of the two
\* viewers is connected
C25_Witness ==
    /\ Len(rebuilds) = 2
    /\ Len(reloads) = 2
    /\ reloads[1].rebuild = 1
    /\ reloads[2].rebuild = 2
    /\ clients = {1}
    /\ open = {1}

\* C28: every file change is followed by a rebuild that starts after it,
\* whenever the change happens: while nothing runs, while a rebuild is in
\* progress or while a reload is pending.
C28_NoEventLost ==
    \A n \in 1..MaxEvents :
        (seen >= n) ~> (\E k \in 1..Len(rebuilds) : rebuilds[k].after >= n)

\* a change made while the first rebuild ran was followed by a second
\* rebuild, after the reload of the first
C28_Witness ==
    /\ Len(rebuilds) = 2
    /\ rebuilds[1].after = 1
    /\ rebuilds[1].during = 1
    /\ rebuilds[2].after = 2
    /\ Len(reloads) = 1

\* a step in which buildSite throws
Throws ==
    \E k \in 1..Len(rebuilds) :
        rebuilds[k].outcome = "running" /\ rebuilds'[k].outcome = "thrown"

\* C29: a rebuild that throws is contained: the step that throws leaves the
\* server's clients, timers and pending events as they were and hands the loop
\* back, isRebuilding is false whenever no rebuild is running, and a change
\* made after the rebuild that threw is followed by a new rebuild.
C29_ThrowContained ==
    /\ [](~busy => ~isRebuilding)
    /\ [][Throws => /\ ~busy' /\ ~isRebuilding'
                    /\ clients' = clients /\ open' = open
                    /\ timers' = timers /\ queued' = queued
                    /\ reloads' = reloads]_vars
    /\ \A n \in 1..MaxEvents :
           (/\ seen >= n
            /\ \E k \in 1..Len(rebuilds) :
                   rebuilds[k].outcome = "thrown" /\ rebuilds[k].after < n)
               ~> (\E j \in 1..Len(rebuilds) : rebuilds[j].after >= n)

\* the first rebuild threw, and a change made after it was rebuilt and
\* announced
C29_Witness ==
    /\ Len(rebuilds) = 2
    /\ rebuilds[1].outcome = "thrown"
    /\ rebuilds[2].outcome = "done"
    /\ rebuilds[2].after > rebuilds[1].after + rebuilds[1].during
    /\ Len(reloads) = 1
    /\ reloads[1].rebuild = 2

====
